---- MODULE Spec2Model ----
(***************************************************************************)
(* Smart Contract Event Listener (src/src/main.rs).                        *)
(*                                                                         *)
(* The program resolves an RPC endpoint, parses the contract address,      *)
(* determines a starting block and then polls forever: read the chain      *)
(* head, query the logs of [current_block, latest_block], normalise each   *)
(* log into an EventData record, hand it to the console, the file and the  *)
(* webhook, set current_block to latest_block + 1, sleep.                  *)
(*                                                                         *)
(* Strings that the code slices or formats are sequences of one-character  *)
(* strings; an Option value is a sequence of length 0 (None) or 1 (Some).  *)
(* The fields timestamp, chain_id, chain_name, contract_address and        *)
(* event_signature of EventData are the same for every event of a run and  *)
(* do not influence control flow; they are left out of the records, and so *)
(* are the topics, which are copied like the data.                         *)
(***************************************************************************)
EXTENDS Integers, Sequences, FiniteSets, TLC

\* ------------------------------------------------------------------ bounds
\* Highest block number the chain head can be read at.
MaxHead == 3

\* ----------------------------------------------------------------- options
None == << >>
Some(v) == << v >>

\* Option::map(f).unwrap_or(d), with f already applied by the caller
UnwrapOr(o, d) == IF o = None THEN d ELSE o[1]

\* ----------------------------------------------------------------- strings
HexDigits == << "0", "1", "2", "3", "4", "5", "6", "7",
                "8", "9", "a", "b", "c", "d", "e", "f" >>

\* hex::encode of one byte
HexByte(b) == << HexDigits[(b \div 16) + 1], HexDigits[(b % 16) + 1] >>

RECURSIVE HexEncode(_)
\* hex::encode of a byte sequence
HexEncode(bytes) ==
    IF bytes = << >> THEN << >>
    ELSE HexByte(Head(bytes)) \o HexEncode(Tail(bytes))

\* format!("{:?}", h) of a 32-byte hash whose first 31 bytes are zero and
\* whose last byte is h: "0x" followed by 64 hex digits
FormatH256(h) == << "0", "x" >> \o [k \in 1..62 |-> "0"] \o HexByte(h)

\* &s[..n]: the first n characters; panics when s is shorter than n
CanSlice(s, n) == Len(s) >= n
SlicePrefix(s, n) == SubSeq(s, 1, n)

\* Length of the hash and address prefix that print_compact shows
CompactPrefixLen == 10

\* ---------------------------------------------------------------- the chain
Blocks == 0..MaxHead

\* What a block holds for the watched contract: no log, one mined log, or one
\* log whose block number, transaction hash and log index are absent (the
\* fields ethers leaves None for a pending log).
LogKinds == {"none", "mined", "pending"}

\* The chains that are tried: the even blocks hold one kind and the odd blocks
\* one kind, so every queried range (two blocks or more) meets both.
Chains ==
    {[b \in Blocks |-> IF b % 2 = 0 THEN even ELSE odd] :
        even \in LogKinds, odd \in LogKinds}

\* Transaction hash (last byte) and log index of the mined log of block b
TxHashOf(b) == 160 + b
LogIndexOf(b) == b + 1

\* The raw Log the node returns for block b
RawLog(kind, b) ==
    IF kind = "mined"
    THEN [block_number |-> Some(b), transaction_hash |-> Some(TxHashOf(b)),
          log_index |-> Some(LogIndexOf(b)), data |-> << b >>]
    ELSE [block_number |-> None, transaction_hash |-> None,
          log_index |-> None, data |-> << b >>]

VARIABLES
    args,           \* parsed command line: start_block, output_format,
                    \* output_file, webhook_url
    chain,          \* block -> kind of log the contract emitted there
    pc,             \* position of main
    error,          \* why main ended ("none" while it runs)
    start_head,     \* the head read at startup (line 108), None if not read
    from_block,     \* starting block (line 105)
    current_block,  \* the watermark (line 114)
    latest_block,   \* the head read in this tick (line 119)
    logs,           \* the batch returned by get_logs (line 138)
    idx,            \* position of the for loop in logs (line 139)
    console,        \* what was printed to stdout, one entry per event
    file,           \* lines of the output file
    webhook,        \* POST requests the webhook received, with its answer
    stderr,         \* what was reported with eprintln!
    queries         \* history: every get_logs call with its range and outcome

vars == << args, chain, pc, error, start_head, from_block, current_block,
           latest_block, logs, idx, console, file, webhook, stderr, queries >>

\* ------------------------------------------------------------ pure functions
OutputFormats == {"pretty", "compact", "json"}

\* Explicit --start-block values that are tried; the highest lies above every
\* head the chain can be read at.
StartBlocks == 0..(MaxHead + 1)

\* Chain ids with a known environment variable (lines 185-195)
SupportedChains == {1, 137, 42161, 8453, 56, 10, 43114, 250, 11155111, 80001}

\* get_rpc_url_from_chain_id: "ok", or the error it returns
get_rpc_url_from_chain_id(chain_id, chain_env_set) ==
    IF chain_id \notin SupportedChains THEN "unsupported_chain"
    ELSE IF ~chain_env_set THEN "chain_env_missing"
    ELSE "ok"

\* Lines 72-80: priority --rpc-url > --chain-id > RPC_URL
ResolveRpc(rpc_url, chain_id, chain_env_set, env_rpc_url) ==
    IF rpc_url # None THEN "ok"
    ELSE IF chain_id # None THEN get_rpc_url_from_chain_id(chain_id[1], chain_env_set)
    ELSE IF env_rpc_url # None THEN "ok"
    ELSE "rpc_unresolved"

\* Line 121 with the comparison weakened: any head different from
\* the watermark counts as new
HasNewBlocksNotEqual(latest, current) == latest # current

\* Line 121 asking for at least two new blocks
HasNewBlocksGap(latest, current) == latest > current + 1

\* Line 121: the head has new blocks for the watermark
HasNewBlocks(latest, current) == latest > current

\* Line 176 without the step past the head
NextWatermarkNoStep(latest) == latest

\* Line 176: the watermark after a tick that issued a query
NextWatermark(latest) == latest + 1

RECURSIVE LogsInRange(_, _, _)
\* What get_logs returns for [from, to] when it succeeds: the logs of the
\* blocks of the range, in block order
LogsInRange(ch, from, to) ==
    IF from > to THEN << >>
    ELSE (IF from \in DOMAIN ch /\ ch[from] # "none"
          THEN << RawLog(ch[from], from) >> ELSE << >>)
         \o LogsInRange(ch, from + 1, to)

\* log_to_event_data with the log index read from the block number field
log_to_event_data_WrongField(log) ==
    [block_number |-> UnwrapOr(log.block_number, 0),
     transaction_hash |-> IF log.transaction_hash = None THEN << >>
                          ELSE FormatH256(log.transaction_hash[1]),
     log_index |-> UnwrapOr(log.block_number, 0),
     data |-> HexEncode(log.data)]

\* log_to_event_data (lines 224-246)
log_to_event_data(log) ==
    [block_number |-> UnwrapOr(log.block_number, 0),
     transaction_hash |-> IF log.transaction_hash = None THEN << >>
                          ELSE FormatH256(log.transaction_hash[1]),
     log_index |-> UnwrapOr(log.log_index, 0),
     data |-> HexEncode(log.data)]

\* serde_json::to_string(event): the fields in declaration order
ToJson(event) ==
    << << "block_number", event.block_number >>,
       << "transaction_hash", event.transaction_hash >>,
       << "log_index", event.log_index >>,
       << "data", event.data >> >>

\* print_compact panics when a slice is out of range (lines 258-259)
CompactPanics(event) == ~CanSlice(event.transaction_hash, CompactPrefixLen)

\* What the console shows for the event (lines 149-153, 248-292)
Render(format, event) ==
    IF format = "json" THEN [fmt |-> "json", text |-> ToJson(event)]
    ELSE IF format = "compact"
    THEN [fmt |-> "compact",
          text |-> << event.block_number,
                      SlicePrefix(event.transaction_hash, CompactPrefixLen) >>]
    ELSE [fmt |-> "pretty",
          text |-> << event.block_number, event.transaction_hash,
                      event.log_index, event.data >>]

HttpStatuses == {200, 500}

\* StatusCode::is_success
IsSuccess(status) == status >= 200 /\ status <= 299

\* Lines 316-320 with a non-success status returned as an error
WebhookReturnsStrict(status) == IF IsSuccess(status) THEN "ok" ELSE "err"

\* Lines 316-320: send_webhook's result once the response arrived
WebhookReturns(status) == "ok"

\* ------------------------------------------------------------------- state
\* The error is reported but main runs on into the loop (no `?`, no bail!)
ExitKeepsRunning(e) ==
    /\ pc' = "idle"
    /\ error' = e
    /\ stderr' = Append(stderr, << "Error", e >>)

\* main returns Err(e) through a `?` or a bail!; the runtime prints the error
Exit(e) ==
    /\ pc' = "exit_err"
    /\ error' = e
    /\ stderr' = Append(stderr, << "Error", e >>)

\* A panic unwinds main; the panic message goes to stderr
Panic(e) ==
    /\ pc' = "panicked"
    /\ error' = e
    /\ stderr' = Append(stderr, << "panicked", e >>)

Init ==
    /\ args \in [start_block : {None} \cup {Some(b) : b \in StartBlocks},
                 output_format : OutputFormats,
                 output_file : {None, Some("events.jsonl")},
                 webhook_url : {None, Some("http://hook")}]
    /\ chain \in Chains
    /\ pc = "start"
    /\ error = "none"
    /\ start_head = None
    /\ from_block = 0
    /\ current_block = 0
    /\ latest_block = 0
    /\ logs = << >>
    /\ idx = 0
    /\ console = << >>
    /\ file = << >>
    /\ webhook = << >>
    /\ stderr = << >>
    /\ queries = << >>

\* Line 105 with the explicit start block ignored (0 when no head was read)
StartingBlockFromHead(start_block, head) == IF head # None THEN head[1] ELSE 0

\* Lines 105-109: the explicit start block, else the head read at startup
StartingBlock(start_block, head) ==
    IF start_block # None THEN start_block[1] ELSE head[1]

\* Lines 72-115: resolve the endpoint, connect, parse the address, determine
\* the starting block. head is the answer to get_block_number at line 108,
\* which is called only without --start-block: None for a failed call.
Startup(rpc_url, chain_id, chain_env_set, env_rpc_url, url_ok, contract_ok, head) ==
    /\ pc = "start"
    /\ LET r == ResolveRpc(rpc_url, chain_id, chain_env_set, env_rpc_url) IN
       IF r # "ok"
       THEN Exit(r) /\ UNCHANGED << start_head, from_block, current_block >>
       ELSE IF ~url_ok
       THEN Exit("provider")
            /\ UNCHANGED << start_head, from_block, current_block >>
       ELSE IF ~contract_ok
       THEN Exit("contract_address")
            /\ UNCHANGED << start_head, from_block, current_block >>
       ELSE IF args.start_block = None /\ head = None
       THEN Exit("start_head")
            /\ UNCHANGED << start_head, from_block, current_block >>
       ELSE /\ start_head' = (IF args.start_block = None THEN head ELSE None)
            /\ from_block' = StartingBlock(args.start_block, start_head')
            /\ current_block' = from_block'
            /\ pc' = "idle"
            /\ UNCHANGED << error, stderr >>
    /\ UNCHANGED << args, chain, latest_block, logs, idx, console, file,
                    webhook, queries >>

\* Lines 119-121: read the head; head = None is a failed call
GetBlockNumber(head) ==
    /\ pc = "idle"
    /\ IF head = None
       THEN Exit("head") /\ UNCHANGED latest_block
       ELSE /\ latest_block' = head[1]
            /\ pc' = IF HasNewBlocks(head[1], current_block)
                     THEN "querying" ELSE "sleep"
            /\ UNCHANGED << error, stderr >>
    /\ UNCHANGED << args, chain, start_head, from_block, current_block, logs, idx, console,
                    file, webhook, queries >>

\* Lines 123-139 and 171-173: build the filter and query the logs
GetLogs(ok) ==
    /\ pc = "querying"
    /\ queries' = Append(queries, [from |-> current_block, to |-> latest_block,
                                   ok |-> ok])
    /\ IF ok
       THEN /\ logs' = LogsInRange(chain, current_block, latest_block)
            /\ idx' = IF logs' = << >> THEN 0 ELSE 1
            /\ pc' = IF logs' = << >> THEN "advance" ELSE "console"
            /\ stderr' = stderr
       ELSE /\ stderr' = Append(stderr, << "Error fetching logs", "get_logs" >>)
            /\ pc' = "advance"
            /\ UNCHANGED << logs, idx >>
    /\ UNCHANGED << args, chain, start_head, error, from_block, current_block, latest_block,
                    console, file, webhook >>

\* Lines 140-153: normalise logs[idx] and print it. println! panics when
\* stdout cannot be written.
PrintEvent(stdout_ok) ==
    /\ pc = "console"
    /\ LET event == log_to_event_data(logs[idx]) IN
       IF args.output_format = "compact" /\ CompactPanics(event)
       THEN Panic("slice") /\ console' = console
       ELSE IF ~stdout_ok
       THEN Panic("stdout") /\ console' = console
       ELSE /\ console' = Append(console, Render(args.output_format, event))
            /\ pc' = "file"
            /\ UNCHANGED << error, stderr >>
    /\ UNCHANGED << args, chain, start_head, from_block, current_block, latest_block, logs,
                    idx, file, webhook, queries >>

\* Lines 155-158 with the error of write_to_file reported and not returned
WriteToFileReportOnly(io_ok) ==
    /\ pc = "file"
    /\ pc' = "webhook"
    /\ error' = error
    /\ file' = IF args.output_file # None /\ io_ok
               THEN Append(file, ToJson(log_to_event_data(logs[idx])))
               ELSE file
    /\ stderr' = IF args.output_file # None /\ ~io_ok
                 THEN Append(stderr, << "Error", "file" >>) ELSE stderr
    /\ UNCHANGED << args, chain, start_head, from_block, current_block,
                    latest_block, logs, idx, console, webhook, queries >>

\* Lines 155-158 and write_to_file: append the JSON line, or return the error
WriteToFile(io_ok) ==
    /\ pc = "file"
    /\ IF args.output_file = None
       THEN pc' = "webhook" /\ UNCHANGED << error, file, stderr >>
       ELSE IF io_ok
       THEN /\ file' = Append(file, ToJson(log_to_event_data(logs[idx])))
            /\ pc' = "webhook"
            /\ UNCHANGED << error, stderr >>
       ELSE Exit("file") /\ file' = file
    /\ UNCHANGED << args, chain, start_head, from_block, current_block, latest_block, logs,
                    idx, console, webhook, queries >>

\* The for loop left after its first iteration (a break)
NextLogBreak == idx' = idx /\ pc' = "advance"

\* The for loop moves to the next log, or ends (lines 139, 164)
NextLog ==
    IF idx < Len(logs)
    THEN idx' = idx + 1 /\ pc' = "console"
    ELSE idx' = idx /\ pc' = "advance"

\* Lines 160-163 and send_webhook: answer is None for a transport error, else
\* the HTTP status of the response
SendWebhook(answer) ==
    /\ pc = "webhook"
    /\ IF args.webhook_url = None
       THEN NextLog /\ UNCHANGED << error, webhook, stderr >>
       ELSE IF answer = None
       THEN Exit("webhook") /\ UNCHANGED << idx, webhook >>
       ELSE /\ webhook' = Append(webhook,
                  [body |-> ToJson(log_to_event_data(logs[idx])),
                   status |-> answer[1]])
            /\ IF WebhookReturns(answer[1]) = "ok"
               THEN /\ NextLog
                    /\ error' = error
                    /\ stderr' = IF IsSuccess(answer[1]) THEN stderr
                                 ELSE Append(stderr, << "Webhook failed",
                                                        ToString(answer[1]) >>)
               ELSE Exit("webhook") /\ idx' = idx
    /\ UNCHANGED << args, chain, start_head, from_block, current_block, latest_block, logs,
                    console, file, queries >>

\* Line 176: the watermark moves past the head; the batch goes out of scope
Advance ==
    /\ pc = "advance"
    /\ current_block' = NextWatermark(latest_block)
    /\ logs' = << >>
    /\ idx' = 0
    /\ pc' = "sleep"
    /\ UNCHANGED << args, chain, start_head, error, from_block, latest_block, console, file,
                    webhook, stderr, queries >>

\* Lines 179-180: sleep; latest_block goes out of scope with the iteration
Sleep ==
    /\ pc = "sleep"
    /\ pc' = "idle"
    /\ latest_block' = 0
    /\ UNCHANGED << args, chain, start_head, error, from_block, current_block, logs, idx,
                    console, file, webhook, stderr, queries >>

OptBlocks == {None} \cup {Some(b) : b \in Blocks}

StartupStep ==
    /\ pc = "start"
    /\ \E rpc_url \in {None, Some("http://node")},
          chain_id \in {None, Some(1), Some(999)},
          chain_env_set \in BOOLEAN,
          env_rpc_url \in {None, Some("http://env")},
          url_ok \in BOOLEAN, contract_ok \in BOOLEAN,
          head \in OptBlocks :
        Startup(rpc_url, chain_id, chain_env_set, env_rpc_url, url_ok,
                contract_ok, head)

GetBlockNumberStep == \E head \in OptBlocks : GetBlockNumber(head)

GetLogsStep == \E ok \in BOOLEAN : GetLogs(ok)

PrintEventStep == \E stdout_ok \in BOOLEAN : PrintEvent(stdout_ok)

WriteToFileStep == \E io_ok \in BOOLEAN : WriteToFile(io_ok)

SendWebhookStep ==
    \E answer \in {None} \cup {Some(s) : s \in HttpStatuses} : SendWebhook(answer)

Next ==
    \/ StartupStep
    \/ GetBlockNumberStep
    \/ GetLogsStep
    \/ PrintEventStep
    \/ WriteToFileStep
    \/ SendWebhookStep
    \/ Advance
    \/ Sleep

Spec == Init /\ [][Next]_vars

\* ------------------------------------------------------------------ claims
Last(seq) == seq[Len(seq)]

\* The blocks of a query's range
RangeOf(q) == q.from .. q.to

\* Number of entries of seq that equal x
Occurrences(seq, x) == Cardinality({k \in DOMAIN seq : seq[k] = x})

\* C1: when the log query of a tick fails, the watermark after the tick is
\* the watermark before it, i.e. the from_block of the failed query, so the
\* range is retried.
C1_FailedQueryKeepsWatermark ==
    (pc \in {"sleep", "idle"} /\ queries # << >> /\ ~Last(queries).ok)
        => current_block = Last(queries).from

\* C2: no event loss: every block from the initial watermark up to (not
\* including) the current watermark lies in the range of a query that
\* returned successfully.
C2_NoEventLoss ==
    \A b \in from_block .. (current_block - 1) :
        \E k \in DOMAIN queries : queries[k].ok /\ b \in RangeOf(queries[k])

\* C3: no duplicate emission: no block lies in the range of two different
\* successful queries, and no event reaches a sink more than once.
C3_NoDuplicateEmission ==
    /\ \A j, k \in DOMAIN queries :
         (j # k /\ queries[j].ok /\ queries[k].ok)
             => RangeOf(queries[j]) \cap RangeOf(queries[k]) = {}
    /\ \A k \in DOMAIN console : Occurrences(console, console[k]) = 1
    /\ \A k \in DOMAIN file : Occurrences(file, file[k]) = 1
    /\ \A j, k \in DOMAIN webhook :
         webhook[j].body = webhook[k].body => j = k

\* C3 witness: two successful queries, each with events that reached the
\* console, the file and the webhook.
C3_Witness ==
    /\ pc = "sleep"
    /\ Len(queries) = 2 /\ queries[1].ok /\ queries[2].ok
    /\ Len(console) >= 3 /\ Len(file) >= 3 /\ Len(webhook) >= 3

\* C4: the ranges of consecutively issued queries are contiguous and do not
\* overlap: range[i].to + 1 = range[i+1].from.
C4_RangesContiguous ==
    \A k \in 1 .. (Len(queries) - 1) : queries[k].to + 1 = queries[k + 1].from

\* C4 witness: a second query was issued after a first one that failed.
C4_Witness ==
    /\ Len(queries) = 2 /\ ~queries[1].ok
    /\ queries[2].from = queries[1].to + 1
    /\ pc = "advance"

\* C5: the watermark never decreases, whatever the head read and the query
\* and sink outcomes.
C5_WatermarkMonotone == [][current_block' >= current_block]_vars

\* C5 witness: the watermark has advanced twice, once over a failed query, and
\* a head below the watermark was then read.
C5_Witness ==
    /\ pc = "sleep"
    /\ Len(queries) = 2 /\ ~queries[2].ok
    /\ current_block > from_block + 2
    /\ latest_block < current_block - 1

\* C6: a query is issued exactly when the head read in the tick is at or above
\* the watermark: a tick that goes to sleep without a query read a head below
\* the watermark (after a query the watermark is past the head anyway).
C6_QueryIffHeadAtOrAboveWatermark ==
    /\ pc = "querying" => latest_block >= current_block
    /\ pc = "sleep" => latest_block < current_block

RECURSIVE ReturnedCount(_)
\* Number of logs the successful queries of the history qs returned
ReturnedCount(qs) ==
    IF qs = << >> THEN 0
    ELSE ReturnedCount(Tail(qs))
         + (IF Head(qs).ok
            THEN Len(LogsInRange(chain, Head(qs).from, Head(qs).to)) ELSE 0)

\* Delivery attempts per sink: the deliveries made plus the failures reported
FileAttempts == Len(file) + Occurrences(stderr, << "Error", "file" >>)
WebhookAttempts == Len(webhook) + Occurrences(stderr, << "Error", "webhook" >>)

SinkFailureReported ==
    \E k \in DOMAIN stderr :
        stderr[k] \in {<< "Error", "file" >>, << "Error", "webhook" >>}

FileEnabled == args.output_file # None
WebhookEnabled == args.webhook_url # None

\* C7: sink failure isolation: whenever no dispatch is in progress, every log
\* a successful query returned has been attempted on every enabled sink, also
\* when the delivery to a sink failed for it or for an earlier event.
C7_SinkFailureIsolation ==
    pc \notin {"console", "file", "webhook", "panicked"} =>
        /\ FileEnabled => FileAttempts = ReturnedCount(queries)
        /\ WebhookEnabled => WebhookAttempts = ReturnedCount(queries)

\* C8: a sink-local failure never stops polling: once a file or webhook
\* failure was reported, main has not returned and the tick runs on to the
\* watermark update.
C8_SinkFailureKeepsPolling ==
    SinkFailureReported => pc \in {"console", "file", "webhook", "advance",
                                   "sleep", "idle", "querying"}

\* The webhook answers the POST of logs[idx] with a non-success status while
\* console, file and webhook are all enabled.
NonSuccessAnswered ==
    /\ pc = "webhook" /\ FileEnabled /\ WebhookEnabled
    /\ Len(webhook') = Len(webhook) + 1
    /\ ~IsSuccess(Last(webhook').status)

\* C9: when all three sinks are enabled and the webhook answers an event's
\* POST with a non-success status, the event is on the console and is exactly
\* one line of the file, the status is reported as a warning only, the loop
\* goes on with the next event of the batch (or to the watermark update), and
\* the watermark update sets the watermark to head + 1.
C9_NonSuccessStatusIsWarning ==
    /\ [][NonSuccessAnswered =>
            LET event == log_to_event_data(logs[idx]) IN
            /\ Last(webhook').body = ToJson(event)
            /\ Len(console) = Len(file)
            /\ Last(console) = Render(args.output_format, event)
            /\ Last(file) = ToJson(event)
            /\ Occurrences(file, ToJson(event)) = 1
            /\ file' = file /\ console' = console
            /\ stderr' = Append(stderr, << "Webhook failed",
                                           ToString(Last(webhook').status) >>)
            /\ error' = "none"
            /\ IF idx < Len(logs)
               THEN pc' = "console" /\ idx' = idx + 1
               ELSE pc' = "advance"]_vars
    /\ [][pc = "advance" =>
            pc' = "sleep" /\ current_block' = latest_block + 1]_vars

\* C9 witness: the first POST of a batch of two was answered 500, both events
\* are on the console, in the file and at the webhook, and the watermark is
\* head + 1.
C9_Witness ==
    /\ FileEnabled /\ WebhookEnabled
    /\ pc = "sleep" /\ Len(queries) = 1
    /\ Len(webhook) = 2 /\ webhook[1].status = 500
    /\ Len(file) = 2 /\ Len(console) = 2
    /\ stderr = << << "Webhook failed", "500" >> >>
    /\ current_block = latest_block + 1

StartupErrors ==
    {"unsupported_chain", "chain_env_missing", "rpc_unresolved", "provider",
     "contract_address", "start_head"}

\* C10: the loop has no terminal state: main ends only by a startup error,
\* never by the outcome of a head read, a query or a sink inside a tick.
C10_OnlyStartupTerminates ==
    pc \in {"exit_err", "panicked"} => error \in StartupErrors

\* C11: the console sink never aborts the cycle: for every output format and
\* every event record, also one with an empty transaction hash, rendering
\* completes, i.e. main never panics in a slice of print_compact.
C11_ConsoleNeverAborts == ~(pc = "panicked" /\ error = "slice")

\* The fatal startup errors the claim names: no endpoint resolvable,
\* unsupported chain id, missing chain variable, invalid contract address
FatalStartupErrors ==
    {"rpc_unresolved", "unsupported_chain", "chain_env_missing", "provider",
     "contract_address"}

\* C12: a fatal startup error aborts before the loop is entered: main has
\* returned, no log query was issued, no head was read in the loop and no
\* event reached a sink.
C12_FatalStartupAbortsBeforeLoop ==
    error \in FatalStartupErrors =>
        /\ pc = "exit_err"
        /\ queries = << >>
        /\ console = << >> /\ file = << >> /\ webhook = << >>
        /\ logs = << >>
        /\ stderr = << << "Error", error >> >>

\* C12 witness: the run ended on an unsupported chain id.
C12_Witness ==
    pc = "exit_err" /\ error = "unsupported_chain" /\ queries = << >>

\* What a tick without a query must leave alone
TickFrame == << current_block, queries, logs, idx, console, file, webhook >>

\* C13: the watermark update of a tick whose query for [w, h] succeeded sets
\* the watermark to h + 1; a tick whose head read is below the watermark goes
\* to sleep and back to idle with no query issued, no event dispatched and
\* the watermark unchanged.
C13_AdvanceAndSkip ==
    /\ [][(pc = "advance" /\ Last(queries).ok) =>
            /\ Last(queries).from = current_block
            /\ current_block' = Last(queries).to + 1]_vars
    /\ [][(pc = "idle" /\ pc' # "exit_err" /\ latest_block' < current_block) =>
            pc' = "sleep" /\ UNCHANGED TickFrame]_vars
    /\ [][pc = "sleep" => pc' = "idle" /\ UNCHANGED TickFrame]_vars

\* C13 witness: after a successful query with events, a later tick read a
\* head below the watermark and went to sleep.
C13_Witness ==
    /\ pc = "sleep"
    /\ Len(queries) = 1 /\ queries[1].ok /\ Len(console) >= 1
    /\ current_block = queries[1].to + 1
    /\ latest_block < current_block - 1

\* C14: every issued query has from_block equal to the watermark of its tick
\* and to_block equal to the head read in that tick, with from_block <=
\* to_block; nothing is queried while the head is below the watermark, as
\* with a start block above the chain head.
C14_QueryRangeWellFormed ==
    /\ \A k \in DOMAIN queries : queries[k].from <= queries[k].to
    /\ pc = "querying" => current_block <= latest_block
    /\ pc \in {"console", "file", "webhook", "advance"} =>
         /\ Last(queries).from = current_block
         /\ Last(queries).to = latest_block
    /\ queries # << >> => from_block <= queries[1].from

\* C14 witness: with an explicit start block just below the highest head, a
\* query was issued once the head had passed the start block.
C14_Witness ==
    /\ args.start_block = Some(MaxHead - 1)
    /\ from_block = MaxHead - 1
    /\ pc = "advance"
    /\ queries = << [from |-> MaxHead - 1, to |-> MaxHead, ok |-> TRUE] >>

RECURSIVE ReturnedLogs(_)
\* The raw logs the successful queries of the history qs returned, in the
\* order in which the Log Source returned them
ReturnedLogs(qs) ==
    IF qs = << >> THEN << >>
    ELSE (IF Head(qs).ok
          THEN LogsInRange(chain, Head(qs).from, Head(qs).to) ELSE << >>)
         \o ReturnedLogs(Tail(qs))

\* The canonical records of the returned logs, one per raw log, in order
ReturnedEvents ==
    LET raw == ReturnedLogs(queries) IN
    [k \in DOMAIN raw |-> log_to_event_data(raw[k])]

\* seq holds f(e) for the events of a prefix of events, in their order
IsPrefixOf(seq, events, f(_)) ==
    /\ Len(seq) <= Len(events)
    /\ \A k \in DOMAIN seq : seq[k] = f(events[k])

RenderArgs(event) == Render(args.output_format, event)

WebhookBodies == [k \in DOMAIN webhook |-> webhook[k].body]

\* C15: within a cycle one canonical record is produced per returned raw log
\* and every enabled sink receives the records in the order returned: when no
\* dispatch is in progress, each enabled sink holds exactly the records of all
\* returned logs, in order.
C15_OneRecordPerLogInOrder ==
    pc \notin {"console", "file", "webhook", "panicked"} =>
        /\ Len(console) = Len(ReturnedEvents)
        /\ IsPrefixOf(console, ReturnedEvents, RenderArgs)
        /\ FileEnabled =>
             Len(file) = Len(ReturnedEvents)
             /\ IsPrefixOf(file, ReturnedEvents, ToJson)
        /\ WebhookEnabled =>
             Len(webhook) = Len(ReturnedEvents)
             /\ IsPrefixOf(WebhookBodies, ReturnedEvents, ToJson)

\* main got past startup and entered the loop
LoopEntered == pc # "start" /\ error \notin StartupErrors

\* C18: the initial watermark is the explicit start block when one is given
\* and else the head read at startup; the watermark stays there until the
\* first query, whose from_block is that initial watermark.
C18_InitialWatermark ==
    LoopEntered =>
        /\ args.start_block # None =>
             from_block = args.start_block[1] /\ start_head = None
        /\ args.start_block = None =>
             start_head # None /\ from_block = start_head[1]
        /\ queries = << >> => current_block = from_block
        /\ queries # << >> => queries[1].from = from_block

\* C18 witness: a run with the explicit start block 1 has issued its first
\* query, from block 1.
C18_Witness ==
    /\ pc = "advance" /\ Len(queries) = 1
    /\ args.start_block = Some(1) /\ queries[1].from = 1

\* ------------------------------------------------- normalisation of any log
\* Every raw Log value over the model's blocks: each optional field is
\* present or absent independently of the others
RawLogs ==
    [block_number : OptBlocks,
     transaction_hash : {None, Some(TxHashOf(0))},
     log_index : {None} \cup {Some(i) : i \in 0..MaxHead},
     data : {<< 0 >>}]

\* get_logs has just returned one arbitrary raw log for [0, MaxHead] (the
\* Log Source is not tied to the chain variable here)
NormInit ==
    /\ args \in [start_block : {Some(0)},
                 output_format : OutputFormats,
                 output_file : {None, Some("events.jsonl")},
                 webhook_url : {None, Some("http://hook")}]
    /\ chain = [b \in Blocks |-> "none"]
    /\ pc = "console"
    /\ error = "none"
    /\ start_head = None
    /\ from_block = 0
    /\ current_block = 0
    /\ latest_block = MaxHead
    /\ logs \in {<< raw >> : raw \in RawLogs}
    /\ idx = 1
    /\ console = << >>
    /\ file = << >>
    /\ webhook = << >>
    /\ stderr = << >>
    /\ queries = << [from |-> 0, to |-> MaxHead, ok |-> TRUE] >>

\* The rest of the tick: normalise and dispatch the log, update the watermark
NormNext ==
    \/ PrintEventStep
    \/ WriteToFileStep
    \/ SendWebhookStep
    \/ Advance
    \/ Sleep

NormSpec == NormInit /\ [][NormNext]_vars

\* C16: log_to_event_data yields 0 in block_number (log_index) when the raw
\* log has no block number (log index), and the raw value when it has one:
\* every record of the log on the console (pretty), in the file and at the
\* webhook carries these values.
C16_MissingFieldsBecomeZero ==
    (logs # << >> /\ pc # "console") =>
        LET raw == logs[1]
            bn == IF raw.block_number = None THEN 0 ELSE raw.block_number[1]
            li == IF raw.log_index = None THEN 0 ELSE raw.log_index[1]
            Carries(json) == /\ json[1] = << "block_number", bn >>
                             /\ json[3] = << "log_index", li >>
        IN  /\ \A k \in DOMAIN file : Carries(file[k])
            /\ \A k \in DOMAIN webhook : Carries(webhook[k].body)
            /\ \A k \in DOMAIN console :
                 /\ args.output_format = "json" => Carries(console[k].text)
                 /\ args.output_format = "pretty" =>
                      console[k].text[1] = bn /\ console[k].text[3] = li

\* C16 witness: a log without block number but with log index 2 is in the
\* file with block_number 0 and log_index 2.
C16_Witness ==
    /\ pc = "advance"
    /\ logs[1].block_number = None /\ logs[1].log_index = Some(2)
    /\ Len(file) = 1
    /\ file[1][1] = << "block_number", 0 >>
    /\ file[1][3] = << "log_index", 2 >>

\* C17: the watermark is advanced in a tick only after every event of the
\* batch went to every enabled sink: while an event of the batch is still to
\* be dispatched the watermark is the from_block of the tick's query (not
\* head + 1), and the step that changes the watermark in the loop is taken
\* with every returned log delivered to every enabled sink.
C17_AdvanceAfterDispatch ==
    /\ [](pc \in {"console", "file", "webhook"} =>
            /\ current_block = Last(queries).from
            /\ current_block # latest_block + 1)
    /\ [][(pc # "start" /\ current_block' # current_block) =>
            /\ pc = "advance"
            /\ idx = Len(logs)
            /\ Len(console) = Len(ReturnedEvents)
            /\ FileEnabled => Len(file) = Len(ReturnedEvents)
            /\ WebhookEnabled => Len(webhook) = Len(ReturnedEvents)]_vars

\* C17 witness: the watermark is head + 1 after a batch of two events went to
\* the console, the only enabled sink.
C17_Witness ==
    /\ pc = "sleep" /\ ~FileEnabled /\ ~WebhookEnabled
    /\ Len(queries) = 1 /\ queries[1].ok
    /\ Len(console) = 2 /\ Len(ReturnedEvents) = 2
    /\ current_block = latest_block + 1

\* a is a prefix of b
IsPrefix(a, b) == Len(a) <= Len(b) /\ \A k \in DOMAIN a : a[k] = b[k]

\* Each sink holds the records of a prefix of the returned events, in order
SinksHoldPrefixes ==
    /\ IsPrefixOf(console, ReturnedEvents, RenderArgs)
    /\ IsPrefixOf(file, ReturnedEvents, ToJson)
    /\ IsPrefixOf(WebhookBodies, ReturnedEvents, ToJson)

\* C20, the statement for all runs: in every reachable state the events posted to the webhook
\* are a prefix of the events appended to the file, which are a prefix of the
\* events rendered to the console.
C20_WebhookPrefixOfFilePrefixOfConsole ==
    /\ SinksHoldPrefixes
    /\ IsPrefix(WebhookBodies, file)
    /\ Len(file) <= Len(console)

\* C20 for the enabled sinks: the sinks are attempted in the order console, file, webhook,
\* each after the earlier one returned without error: the events of the file
\* and of the webhook are each a prefix of the events of the console, a
\* disabled sink receives nothing, and with the file sink enabled the events
\* of the webhook are a prefix of the events of the file.
C20_EnabledSinksPrefixOrder ==
    /\ SinksHoldPrefixes
    /\ Len(file) <= Len(console)
    /\ Len(webhook) <= Len(console)
    /\ ~FileEnabled => file = << >>
    /\ ~WebhookEnabled => webhook = << >>
    /\ FileEnabled => IsPrefix(WebhookBodies, file)
    /\ (pc = "file" /\ FileEnabled) => Len(file) = Len(console) - 1
    /\ (pc = "webhook" /\ FileEnabled) => Len(file) = Len(console)
    /\ (pc = "webhook" /\ WebhookEnabled) => Len(webhook) = Len(console) - 1

\* C20 witness: the second POST of a run failed after the console and the
\* file had taken both events.
C20_Witness ==
    /\ pc = "exit_err" /\ error = "webhook"
    /\ Len(console) = 2 /\ Len(file) = 2 /\ Len(webhook) = 1

\* ---------------------------------------------------------------- progress
\* The steps of main in an environment whose calls in the loop succeed: the
\* head read and the query answer, stdout, the file and the webhook endpoint
\* take what they are given (the endpoint with any status)
LiveNext ==
    \/ StartupStep
    \/ \E h \in Blocks : GetBlockNumber(Some(h))
    \/ GetLogs(TRUE)
    \/ PrintEvent(TRUE)
    \/ WriteToFile(TRUE)
    \/ \E s \in HttpStatuses : SendWebhook(Some(s))
    \/ Advance
    \/ Sleep

\* The loop of main never stops by itself: every await of a tick resolves
\* (the head read, the query, the POST and the sleep return), so a step that
\* can be taken is taken (lines 117-180). The chain head keeps advancing up
\* to the largest block of the model, and the listener, which reads the head
\* in every tick, reads it there again and again.
LiveSpec ==
    /\ Init
    /\ [][LiveNext]_vars
    /\ WF_vars(LiveNext)
    /\ SF_vars(GetBlockNumber(Some(MaxHead)))

\* Block b lies in the range of an issued successful query
Covered(b) == \E k \in DOMAIN queries : queries[k].ok /\ b \in RangeOf(queries[k])

\* C19: progress: when head reads and queries keep succeeding, no sink fails
\* and the chain head keeps advancing, every block at or above the initial
\* watermark and below the largest head is eventually in the range of an
\* issued query, with the watermark above it (the only sink that can fail
\* with LiveNext is the console, whose compact rendering panics).
C19_NoBlockPostponedForever ==
    \A b \in Blocks :
        (LoopEntered /\ from_block <= b /\ b < MaxHead)
            ~> ((Covered(b) /\ current_block > b) \/ pc = "panicked")

\* C19 witness: two successful queries of a run that started at block 0 cover
\* every block up to the largest head, and the watermark is above them.
C19_Witness ==
    /\ pc = "sleep" /\ from_block = 0 /\ current_block = MaxHead + 1
    /\ Len(queries) = 2 /\ queries[1].ok /\ queries[2].ok
    /\ queries[1].from = 0 /\ queries[2].to = MaxHead
    /\ \A b \in Blocks : Covered(b)
====
